---- MODULE Spec2Model ----
(***************************************************************************)
(* Model of the k-DOP axis optimizers:                                     *)
(*   - the search drivers of sphere_optimizer.cc and image_optimizer.cc,   *)
(*   - the OpenMP sampling loop of evaluate_axes_cost,                     *)
(*   - the volume kernel of kdop_volume.hh (calc_kdop_volume and helpers). *)
(*                                                                         *)
(* Number models.  The driver's vectors are fixed point, one unit being    *)
(* 1/1000 (a component 1.0 is 1000); a NaN vector is the empty tuple.      *)
(* Scores are records so that NaN and +inf compare as IEEE-754 does.       *)
(* The perturbation radius is a power of two and is kept as its exponent   *)
(* (halving a binary float is exact down to FLT_MIN).                      *)
(***************************************************************************)
EXTENDS Integers, Sequences, FiniteSets, TLC

VARIABLES
    \* ---- search driver (main of both optimizers)
    variant,          \* "sphere" | "image": which executable runs
    pc,               \* position in main
    axis_count,       \* atoi(argv[1]) / atoi(argv[2])
    forced,           \* the forced-axis arguments, in thousandths
    locked_axes,      \* number of locked axes counted while parsing
    best_axes,        \* current best axis set
    best_score,       \* best_volume / best_score
    no_improvement,   \* no_improvement / fail_count
    perturbation,     \* exponent e of perturbation / temperature = 2^e
    axes,             \* the proposal of the running iteration
    cur_score,        \* volume / cur_score of the running iteration
    printed,          \* the axis list printed at termination
    \* ---- evaluate_axes_cost: the parallel sampling loop
    o_pc, o_a, o_volume, o_reg, o_todo, o_vols, sum_volume, o_lock, o_result,
    \* ---- evaluate_axes_cost: the body of one iteration up to the kernel call
    s_pc,             \* position in the iteration body
    s_w, s_h,         \* w, h: the image size
    s_seed, s_a,      \* the seed argument and the loop index a
    s_fused,          \* the build contracts u*(w-2)+1 into one fused operation
    cur_seed,         \* uint cur_seed
    s_x, s_y,         \* int x, int y: the sampled pixel
    s_n,              \* iterations of the (i, j) loops done
    s_reads,          \* the indices into image_data read so far
    neighborhood,     \* per slot of vec3 neighborhood[9]: times written
    \* ---- calc_kdop_volume
    k_pc, k_axes, k_ranges, sides, k_pos, ref_center, total_volume

drvVars == <<variant, pc, axis_count, forced, locked_axes, best_axes,
             best_score, no_improvement, perturbation, axes, cur_score,
             printed>>
ompVars == <<o_pc, o_a, o_volume, o_reg, o_todo, o_vols, sum_volume, o_lock,
             o_result>>
kdopVars == <<k_pc, k_axes, k_ranges, sides, k_pos, ref_center, total_volume>>
smpVars == <<s_pc, s_w, s_h, s_seed, s_a, s_fused, cur_seed, s_x, s_y, s_n,
             s_reads, neighborhood>>
vars == <<drvVars, ompVars, kdopVars, smpVars>>

-----------------------------------------------------------------------------
(* Bounds of the model.                                                    *)

\* evaluated scores are drawn from 0..MaxScore, NaN and +inf
MaxScore == 1

-----------------------------------------------------------------------------
(* Integer helpers.                                                        *)

Abs(x) == IF x < 0 THEN -x ELSE x

Min2(x, y) == IF y < x THEN y ELSE x

RECURSIVE Pow2(_)
Pow2(n) == IF n <= 0 THEN 1 ELSE 2 * Pow2(n - 1)

\* floor of the square root, by bisection on lo..hi
RECURSIVE SqrtIn(_, _, _)
SqrtIn(s, lo, hi) ==
    IF lo >= hi THEN lo
    ELSE LET mid == (lo + hi + 1) \div 2
         IN  IF mid * mid <= s THEN SqrtIn(s, mid, hi)
             ELSE SqrtIn(s, lo, mid - 1)

ISqrt(s) == SqrtIn(s, 0, 30000)

\* a / b rounded to nearest, b > 0
RoundDiv(a, b) ==
    IF a >= 0 THEN (2 * a + b) \div (2 * b)
    ELSE -((2 * (-a) + b) \div (2 * b))

-----------------------------------------------------------------------------
(* Fixed-point vectors of the drivers (glm::vec3).                         *)

NaNVec == <<>>

ZeroVec == <<0, 0, 0>>

IsNaNVec(v) == Len(v) = 0

Dot3(v, w) == v[1] * w[1] + v[2] * w[2] + v[3] * w[3]

\* glm::normalize: v * inversesqrt(dot(v, v)); the zero vector gives 0 * inf.
\* A short vector is first scaled up, so that the integer square root keeps
\* three significant digits as the float one does.
RECURSIVE Normalize(_)
Normalize(v) ==
    IF IsNaNVec(v) THEN NaNVec
    ELSE IF Dot3(v, v) = 0 THEN NaNVec
    ELSE IF Dot3(v, v) < 1000000
         THEN Normalize(<<20 * v[1], 20 * v[2], 20 * v[3]>>)
    ELSE LET len == ISqrt(Dot3(v, v))
         IN  <<RoundDiv(1000 * v[1], len),
               RoundDiv(1000 * v[2], len),
               RoundDiv(1000 * v[3], len)>>

\* a vector of length 1 within the rounding of the fixed-point model
IsUnit(v) ==
    /\ ~IsNaNVec(v)
    /\ Abs(Dot3(v, v) - 1000000) <= 4000

-----------------------------------------------------------------------------
(* 32-bit unsigned arithmetic of pcg(); a uint is <<high 16 bits, low 16    *)
(* bits>> so that no intermediate leaves the checker's integer range.      *)

\* the value of v, computed once (arguments are otherwise passed unevaluated)
Eval(v) == CHOOSE w \in {v} : TRUE

Add32(a, b) ==
    LET lo == a[2] + b[2]
    IN  <<(a[1] + b[1] + lo \div 65536) % 65536, lo % 65536>>

Shr32(a, s) ==
    IF s >= 16 THEN <<0, a[1] \div Pow2(s - 16)>>
    ELSE <<a[1] \div Pow2(s),
           (a[1] % Pow2(s)) * Pow2(16 - s) + a[2] \div Pow2(s)>>

RECURSIVE XorBits(_, _, _)
XorBits(a, b, n) ==
    IF n = 0 THEN 0
    ELSE ((a + b) % 2) + 2 * XorBits(a \div 2, b \div 2, n - 1)

Xor32(a, b) == <<XorBits(a[1], b[1], 16), XorBits(a[2], b[2], 16)>>

\* the low 16 bits of x * y for 16-bit x and y, by bytes
MulLow16(x, y) ==
    (  (x % 256) * (y % 256)
     + (((x \div 256) * (y % 256) + (x % 256) * (y \div 256)) % 256) * 256)
    % 65536

\* the full 32-bit product of 16-bit x and y, as <<high, low>>
MulFull16(x, y) ==
    LET mid == (x \div 256) * (y % 256) + (x % 256) * (y \div 256)
        lo  == (x % 256) * (y % 256) + (mid % 256) * 256
    IN  <<(x \div 256) * (y \div 256) + mid \div 256 + lo \div 65536,
          lo % 65536>>

\* a * b mod 2^32
Mul32(a, b) ==
    LET low == MulFull16(a[2], b[2])
    IN  <<(low[1] + MulLow16(a[1], b[2]) + MulLow16(a[2], b[1])) % 65536,
          low[2]>>

\* the three assignments of pcg() on an evaluated seed
PcgMix(seed) ==
    LET s1 == Eval(Add32(Mul32(seed, <<11410, 30645>>), <<44118, 19205>>))
        s2 == Eval(Mul32(Xor32(Shr32(s1, (s1[1] \div 4096) + 4), s1),
                         <<4238, 62169>>))
    IN  Xor32(s2, Shr32(s2, 22))

\* uint pcg(uint& seed): returns the new seed, which is also the result
pcg(seed) == CHOOSE r \in {PcgMix(s) : s \in {seed}} : TRUE

\* generate_uniform_random: float(pcg) * 2^-32, in thousandths.  The
\* uint -> float conversion rounds to 24 bits, so the top 128 values give 1.0
generate_uniform_random(p) ==
    IF p[1] = 65535 /\ p[2] >= 65408 THEN 1000
    ELSE (p[1] * 1000) \div 65536

\* cos of k * 22.5 degrees, in thousandths
CosTab == <<1000, 924, 707, 383, 0, -383, -707, -924,
            -1000, -924, -707, -383, 0, 383, 707, 924>>

CosQ(k) == CosTab[(k % 16) + 1]

SinQ(k) == CosQ(k + 12)

\* sample_sphere(vec2) as it would be without the sin_theta factor
sample_sphere_flat(ux, uy) ==
    LET k == (uy * 16) \div 1000
    IN  <<CosQ(k), SinQ(k), 2 * ux - 1000>>

\* vec3 sample_sphere(vec2 u); phi = 2 pi u.y is quantised to 16 sectors
sample_sphere_u(ux, uy) ==
    LET cos_theta == 2 * ux - 1000
        sin_theta == ISqrt(1000000 - cos_theta * cos_theta)
        k == (uy * 16) \div 1000
    IN  <<RoundDiv(CosQ(k) * sin_theta, 1000),
          RoundDiv(SinQ(k) * sin_theta, 1000),
          cos_theta>>

\* vec3 sample_sphere(uint& seed): the sample drawn from the given seed
sample_sphere(seed) ==
    CHOOSE v \in UNION {{sample_sphere_u(generate_uniform_random(p1),
                                         generate_uniform_random(p2)) :
                          p2 \in {pcg(p1)}} : p1 \in {pcg(seed)}} : TRUE

\* the seed after n calls of pcg from uint seed = 0
RECURSIVE SeedAfter(_)
SeedAfter(n) ==
    IF n = 0 THEN <<0, 0>>
    ELSE CHOOSE r \in {pcg(s) : s \in {SeedAfter(n - 1)}} : TRUE

\* the k-th (k >= 1) free axis drawn at initialization of the image variant
InitialFreeAxis(k) == sample_sphere(SeedAfter(2 * (k - 1)))

-----------------------------------------------------------------------------
(* Scores (float): a number, NaN or +inf, compared as operator< does.      *)

Num(v) == [k |-> "num", v |-> v]

NaNScore == [k |-> "nan", v |-> 0]

InfScore == [k |-> "inf", v |-> 0]

\* x < y on floats: false as soon as one side is NaN
Less(x, y) ==
    /\ x.k # "nan"
    /\ y.k # "nan"
    /\ \/ x.k = "num" /\ y.k = "inf"
       \/ x.k = "num" /\ y.k = "num" /\ x.v < y.v

\* what an evaluation can return
Scores == {Num(v) : v \in 0..MaxScore} \cup {NaNScore}

-----------------------------------------------------------------------------
(* The search drivers: main() of sphere_optimizer.cc and image_optimizer.cc *)

\* no_improvement > 1000
SphereThreshold == 1000

\* fail_count > 100
ImageThreshold == 100

\* FLT_MIN = 2^FltMinExp
FltMinExp == -126

Threshold(v) == IF v = "sphere" THEN SphereThreshold ELSE ImageThreshold

\* float perturbation = 2;  float temperature = 1;  as exponents of two
InitialRadius(v) == IF v = "sphere" THEN 1 ELSE 0

\* float best_volume = 1e99 (out of float range: +inf);  best_score = 1e9f
InitialBest(v) == IF v = "sphere" THEN InfScore ELSE Num(1000000000)

\* the loop condition if both variants compared against FLT_MIN
LoopConditionFltMin(v, e) == e > FltMinExp

\* perturbation > 1e-5   /   temperature > FLT_MIN,   for radius 2^e
LoopCondition(v, e) ==
    IF v = "sphere" THEN e >= 0 \/ Pow2(-e) < 100000
    ELSE e > FltMinExp

\* the i-th (1-based) vector filled by the argument loop: component c of
\* argument j goes to best_axes[j / 3][j % 3], the rest stays vec3(0)
ForcedVec(f, i) ==
    [c \in 1..3 |-> IF 3 * (i - 1) + c <= Len(f) THEN f[3 * (i - 1) + c] ELSE 0]

\* locked_axes after the argument loop: one more for every third argument
LockedCount(f) == (Len(f) + 2) \div 3

\* directions a perturbed free axis can take: normalize(axis + r * random)
FreePool == {<<0, 0, 1000>>, <<0, 1000, 0>>}

\* the argument parsing and initialization up to the loop
Initialize ==
    /\ pc = "start"
    /\ LockedCount(forced) <= axis_count
    /\ locked_axes' = LockedCount(forced)
    /\ best_axes' =
         [i \in 1..axis_count |->
            IF i <= LockedCount(forced) THEN Normalize(ForcedVec(forced, i))
            ELSE IF variant = "image"
                 THEN InitialFreeAxis(i - LockedCount(forced))
                 ELSE ZeroVec]
    /\ best_score' = InitialBest(variant)
    /\ no_improvement' = 0
    /\ perturbation' = InitialRadius(variant)
    /\ pc' = "head"
    /\ UNCHANGED <<variant, axis_count, forced, axes, cur_score, printed>>
    /\ UNCHANGED <<ompVars, kdopVars, smpVars>>

\* more forced axes than axis_count: best_axes[locked_axes-1] is written past
\* the end of the vector.  Undefined behaviour: the process dies, or the
\* stray writes land in unrelated memory and main goes on.
ParseOverrun ==
    /\ pc = "start"
    /\ LockedCount(forced) > axis_count
    /\ locked_axes' = LockedCount(forced)
    /\ \/ /\ pc' = "crashed"
          /\ UNCHANGED <<best_axes, best_score, no_improvement, perturbation>>
       \/ /\ pc' = "head"
          /\ best_axes' = [i \in 1..axis_count |->
                             Normalize(ForcedVec(forced, i))]
          /\ best_score' = InitialBest(variant)
          /\ no_improvement' = 0
          /\ perturbation' = InitialRadius(variant)
    /\ UNCHANGED <<variant, axis_count, forced, axes, cur_score, printed>>
    /\ UNCHANGED <<ompVars, kdopVars, smpVars>>

\* Propose as it would be if the perturbation loop started one axis early
ProposeFromLastLocked ==
    /\ pc = "head"
    /\ LoopCondition(variant, perturbation)
    /\ \E free \in [1..axis_count -> FreePool] :
         axes' = [i \in 1..axis_count |->
                    IF i < locked_axes THEN best_axes[i] ELSE free[i]]
    /\ cur_score' \in Scores
    /\ pc' = "decide"
    /\ UNCHANGED <<variant, axis_count, forced, locked_axes, best_axes,
                   best_score, no_improvement, perturbation, printed>>
    /\ UNCHANGED <<ompVars, kdopVars, smpVars>>

\* loop condition holds: copy the best set, perturb the free axes, evaluate
Propose ==
    /\ pc = "head"
    /\ LoopCondition(variant, perturbation)
    /\ \E free \in [(Min2(locked_axes, axis_count) + 1)..axis_count -> FreePool] :
         axes' = [i \in 1..axis_count |->
                    IF i <= locked_axes THEN best_axes[i] ELSE free[i]]
    /\ cur_score' \in Scores
    /\ pc' = "decide"
    /\ UNCHANGED <<variant, axis_count, forced, locked_axes, best_axes,
                   best_score, no_improvement, perturbation, printed>>
    /\ UNCHANGED <<ompVars, kdopVars, smpVars>>

\* Accept as it would be with <= in place of <
AcceptOnTie ==
    /\ pc = "decide"
    /\ ~Less(best_score, cur_score)
    /\ cur_score.k # "nan"
    /\ best_score' = cur_score
    /\ best_axes' = axes
    /\ no_improvement' = 0
    /\ pc' = "head"
    /\ axes' = <<>>
    /\ cur_score' = NaNScore
    /\ UNCHANGED <<variant, axis_count, forced, locked_axes, perturbation,
                   printed>>
    /\ UNCHANGED <<ompVars, kdopVars, smpVars>>

\* if(volume < best_volume): take the proposal
Accept ==
    /\ pc = "decide"
    /\ Less(cur_score, best_score)
    /\ best_score' = cur_score
    /\ best_axes' = axes
    /\ no_improvement' = 0
    /\ pc' = "head"
    /\ axes' = <<>>
    /\ cur_score' = NaNScore
    /\ UNCHANGED <<variant, axis_count, forced, locked_axes, perturbation,
                   printed>>
    /\ UNCHANGED <<ompVars, kdopVars, smpVars>>

\* else: no_improvement++
Reject ==
    /\ pc = "decide"
    /\ ~Less(cur_score, best_score)
    /\ no_improvement' = no_improvement + 1
    /\ pc' = "stalled"
    /\ axes' = <<>>
    /\ cur_score' = NaNScore
    /\ UNCHANGED <<variant, axis_count, forced, locked_axes, best_axes,
                   best_score, perturbation, printed>>
    /\ UNCHANGED <<ompVars, kdopVars, smpVars>>

\* Shrink as it would be with >= in place of >
ShrinkAtThreshold ==
    /\ pc = "stalled"
    /\ no_improvement >= Threshold(variant)
    /\ perturbation' = perturbation - 1
    /\ no_improvement' = 0
    /\ pc' = "head"
    /\ UNCHANGED <<variant, axis_count, forced, locked_axes, best_axes,
                   best_score, axes, cur_score, printed>>
    /\ UNCHANGED <<ompVars, kdopVars, smpVars>>

\* Shrink as it would be if the radius were left alone
ShrinkWithoutHalving ==
    /\ pc = "stalled"
    /\ no_improvement > Threshold(variant)
    /\ no_improvement' = 0
    /\ pc' = "head"
    /\ UNCHANGED <<variant, axis_count, forced, locked_axes, best_axes,
                   best_score, perturbation, axes, cur_score, printed>>
    /\ UNCHANGED <<ompVars, kdopVars, smpVars>>

\* if(no_improvement > 1000) { perturbation *= 0.5f; no_improvement = 0; }
Shrink ==
    /\ pc = "stalled"
    /\ no_improvement > Threshold(variant)
    /\ perturbation' = perturbation - 1
    /\ no_improvement' = 0
    /\ pc' = "head"
    /\ UNCHANGED <<variant, axis_count, forced, locked_axes, best_axes,
                   best_score, axes, cur_score, printed>>
    /\ UNCHANGED <<ompVars, kdopVars, smpVars>>

\* the threshold is not exceeded: next iteration with the same radius
KeepRadius ==
    /\ pc = "stalled"
    /\ ~(no_improvement > Threshold(variant))
    /\ pc' = "head"
    /\ UNCHANGED <<variant, axis_count, forced, locked_axes, best_axes,
                   best_score, no_improvement, perturbation, axes, cur_score,
                   printed>>
    /\ UNCHANGED <<ompVars, kdopVars, smpVars>>

\* if(fabs(c) < 5e-3) c = 0, for one component
SnapComponent(c) == IF Abs(c) < 5 THEN 0 ELSE c

\* the sphere variant's final loop body: snap small components, renormalize
SnapAxis(v) ==
    IF IsNaNVec(v) THEN NaNVec
    ELSE Normalize(<<SnapComponent(v[1]), SnapComponent(v[2]),
                     SnapComponent(v[3])>>)

\* loop condition fails: print the axis list
Finish ==
    /\ pc = "head"
    /\ ~LoopCondition(variant, perturbation)
    /\ best_axes' = IF variant = "sphere"
                    THEN [i \in 1..axis_count |-> SnapAxis(best_axes[i])]
                    ELSE best_axes
    /\ printed' = best_axes'
    /\ pc' = "done"
    /\ UNCHANGED <<variant, axis_count, forced, locked_axes, best_score,
                   no_improvement, perturbation, axes, cur_score>>
    /\ UNCHANGED <<ompVars, kdopVars, smpVars>>

\* the other components at rest
OmpIdle ==
    /\ o_pc = <<>> /\ o_a = <<>> /\ o_volume = <<>> /\ o_reg = <<>>
    /\ o_todo = {} /\ o_vols = <<>> /\ sum_volume = 0 /\ o_lock = 0
    /\ o_result = <<>>

KdopIdle ==
    /\ k_pc = "idle" /\ k_axes = <<>> /\ k_ranges = <<>> /\ sides = <<>>
    /\ k_pos = <<>> /\ ref_center = <<>> /\ total_volume = <<>>

SampleIdle ==
    /\ s_pc = "idle" /\ s_w = 0 /\ s_h = 0 /\ s_seed = <<0, 0>> /\ s_a = 0
    /\ s_fused = FALSE /\ cur_seed = <<0, 0>> /\ s_x = 0 /\ s_y = 0
    /\ s_n = 0 /\ s_reads = <<>> /\ neighborhood = <<>>

DriverStart ==
    /\ pc = "start"
    /\ locked_axes = 0
    /\ best_axes = <<>>
    /\ best_score = NaNScore
    /\ no_improvement = 0
    /\ perturbation = 0
    /\ axes = <<>>
    /\ cur_score = NaNScore
    /\ printed = <<>>

\* command lines explored by the search: <axis-count> [forced axes...]
\*   2  1 0.003 0   one locked axis with a component below 5e-3, one free
\*   1  3 4         one locked axis given by two arguments, no free axis
Argvs == { [n |-> 2, f |-> <<1000, 3, 0>>],
           [n |-> 1, f |-> <<3000, 4000>>] }

\* command lines on which every axis is locked
LockedArgvs == { a \in Argvs : LockedCount(a.f) = a.n }

InitWith(A) ==
    /\ variant \in {"sphere", "image"}
    /\ \E a \in A : axis_count = a.n /\ forced = a.f
    /\ DriverStart
    /\ OmpIdle
    /\ KdopIdle
    /\ SampleIdle

Init == InitWith(Argvs)

Next ==
    \/ Initialize
    \/ Propose
    \/ Accept
    \/ Reject
    \/ Shrink
    \/ KeepRadius
    \/ Finish

\* the search of both optimizers, from the command line to the final print
Spec == Init /\ [][Next]_vars

\* main() runs on by itself: sequential code always takes its next step
FairSpec == InitWith(LockedArgvs) /\ [][Next]_vars /\ WF_vars(Next)

-----------------------------------------------------------------------------
(* Initialization alone, over a wide range of command lines.               *)

\* bounds of the command lines
MaxAxisCount == 3

MaxArgs == 4

\* values of the forced-axis arguments: 0, 0.003, 1, -4
ArgValues == {0, 3, 1000, -4000}

RECURSIVE SeqsUpTo(_, _)
SeqsUpTo(S, n) ==
    IF n = 0 THEN {<<>>}
    ELSE LET shorter == SeqsUpTo(S, n - 1)
         IN  shorter \cup {Append(q, x) : q \in {r \in shorter : Len(r) = n - 1},
                                          x \in S}

InitArgs ==
    /\ variant \in {"sphere", "image"}
    /\ axis_count \in 0..MaxAxisCount
    /\ forced \in SeqsUpTo(ArgValues, MaxArgs)
    /\ DriverStart
    /\ OmpIdle
    /\ KdopIdle
    /\ SampleIdle

NextInit ==
    \/ Initialize
    \/ ParseOverrun

SpecInit == InitArgs /\ [][NextInit]_vars

-----------------------------------------------------------------------------
(* Claims about the search drivers.                                        *)

\* the positions of main inside the search loop
InLoop == pc \in {"head", "decide", "stalled"}

\* C1: in both drivers a proposal replaces the current best if and only if
\* its score is strictly less than the best score; on acceptance the
\* stagnation counter becomes 0, otherwise it is incremented and the best
\* axes and best score stay; so the best score never increases.
C1_AcceptIffStrictlyLess ==
    [][ /\ pc = "decide" =>
             IF Less(cur_score, best_score)
             THEN /\ best_axes' = axes
                  /\ best_score' = cur_score
                  /\ no_improvement' = 0
             ELSE /\ no_improvement' = no_improvement + 1
                  /\ best_axes' = best_axes
                  /\ best_score' = best_score
        /\ InLoop => ~Less(best_score, best_score')
        /\ (InLoop /\ best_score' # best_score) =>
             (pc = "decide" /\ Less(best_score', best_score))
      ]_vars

\* a proposal was accepted on a strictly lower score, and the next ones
\* (an equal score among them) were rejected and counted
C1_Witness ==
    /\ pc = "stalled"
    /\ best_score = Num(0)
    /\ no_improvement = 3
    /\ best_axes[axis_count] \in FreePool

\* the thresholds C2 names
ClaimedThreshold == IF variant = "sphere" THEN 1000 ELSE 100

\* C2: the radius is halved exactly when a rejection has brought the
\* stagnation counter above the ClaimedThreshold (1000 sphere, 100 image), the
\* counter is reset to 0 in that step, and no other step changes the radius;
\* at every loop head the counter is in 0..ClaimedThreshold and the radius is the
\* initial radius times a power of 1/2.
C2_ShrinkExactlyAboveThreshold ==
    /\ [][ InLoop =>
             /\ (perturbation' # perturbation) <=>
                  (pc = "stalled" /\ no_improvement > ClaimedThreshold)
             /\ (perturbation' # perturbation) =>
                  /\ perturbation' = perturbation - 1
                  /\ no_improvement' = 0
             /\ (pc = "stalled" /\ pc' = "head"
                 /\ no_improvement' = no_improvement) =>
                  no_improvement <= ClaimedThreshold
         ]_vars
    /\ [](pc = "head" =>
             /\ no_improvement \in 0..ClaimedThreshold
             /\ InitialRadius(variant) - perturbation \in Nat)
    /\ [](pc = "stalled" => no_improvement \in 1..(ClaimedThreshold + 1))

\* the counter has just been reset by the second halving of a run
C2_Witness ==
    /\ pc = "head"
    /\ no_improvement = 0
    /\ perturbation = InitialRadius(variant) - 2
    /\ best_score = InitialBest(variant)

\* C3 as claimed: in both variants the loop ends only once the radius is
\* down at the smallest representable positive value.
C3_Original ==
    pc = "done" => perturbation <= FltMinExp

\* C3 as amended: the image loop proposes while temperature > FLT_MIN and
\* ends with temperature = FLT_MIN = 2^-126; the sphere loop proposes while
\* perturbation > 1e-5 and ends with perturbation = 2^-17, the first power of
\* two not above 1e-5, far above the smallest representable value.
C3_LoopBounds ==
    /\ pc \in {"decide", "stalled"} =>
         IF variant = "sphere" THEN perturbation >= -16
         ELSE perturbation >= FltMinExp + 1
    /\ pc = "done" =>
         IF variant = "sphere" THEN perturbation = -17
         ELSE perturbation = FltMinExp

\* the sphere search has ended, 18 halvings after it started at 2
C3_Witness ==
    /\ pc = "done"
    /\ variant = "sphere"
    /\ perturbation = InitialRadius("sphere") - 18

ForcedVectors ==
    LET values == ArgValues \cup UNION {{a.f[j] : j \in 1..Len(a.f)} : a \in Argvs}
    IN  {<<x, y, z>> : x \in values, y \in values, z \in values}

\* glm::normalize of each of them, tabulated once
NormalizedForced == [v \in ForcedVectors |-> Normalize(v)]

\* the locked axis i as main stores it: the caller's vector, normalized
LockedAxis(i) == NormalizedForced[ForcedVec(forced, i)]

\* the indices of the locked axes held by a set of axis_count axes
LockedIndices == {i \in 1..axis_count : i <= locked_axes}

\* C5 as claimed: every locked axis of the best set, of every proposal and
\* of the printed list equals the normalized caller-supplied vector.
C5_Original ==
    /\ InLoop => \A i \in LockedIndices : best_axes[i] = LockedAxis(i)
    /\ pc = "decide" => \A i \in LockedIndices : axes[i] = LockedAxis(i)
    /\ pc = "done" => \A i \in LockedIndices : printed[i] = LockedAxis(i)

\* C5 as amended: during the search every locked axis of the best set and of
\* every proposal equals the normalized caller-supplied vector; the image
\* variant prints it unchanged, the sphere variant prints it with every
\* component below 5e-3 in magnitude set to 0 and renormalized.
C5_LockedAxesKept ==
    /\ InLoop => \A i \in LockedIndices : best_axes[i] = LockedAxis(i)
    /\ pc = "decide" => \A i \in LockedIndices : axes[i] = LockedAxis(i)
    /\ pc = "done" =>
         \A i \in LockedIndices :
            printed[i] = IF variant = "sphere" THEN SnapAxis(LockedAxis(i))
                         ELSE LockedAxis(i)

\* a proposal with a perturbed free axis was accepted next to a locked axis
C5_Witness ==
    /\ pc = "done"
    /\ locked_axes = 1
    /\ axis_count = 2
    /\ best_score = Num(0)
    /\ printed[1] = <<1000, 0, 0>>
    /\ printed[2] \in FreePool

\* C6 as claimed: after initialization, in both variants, the best set is
\* the normalized locked axes followed by free axes that are unit vectors
\* drawn from the seeded generator; no free axis is the zero vector.
C6_Original ==
    pc = "head" =>
        \A i \in 1..axis_count :
            IF i <= locked_axes THEN best_axes[i] = LockedAxis(i)
            ELSE IsUnit(best_axes[i]) /\ best_axes[i] # ZeroVec

\* C6 as amended: after initialization the best set is the normalized locked
\* axes (unit vectors unless the caller gave the zero vector) followed, in the
\* image variant, by unit vectors drawn in order from the generator seeded
\* with 0, and in the sphere variant by zero vectors.
C6_InitialAxes ==
    pc = "head" =>
        /\ Len(best_axes) = axis_count
        /\ \A i \in 1..axis_count :
            IF i <= locked_axes
            THEN /\ best_axes[i] = LockedAxis(i)
                 /\ ForcedVec(forced, i) # ZeroVec => IsUnit(best_axes[i])
                 /\ ForcedVec(forced, i) = ZeroVec => IsNaNVec(best_axes[i])
            ELSE IF variant = "image"
                 THEN /\ IsUnit(best_axes[i])
                      /\ best_axes[i] =
                           sample_sphere(SeedAfter(2 * (i - locked_axes - 1)))
                 ELSE best_axes[i] = ZeroVec

\* the image variant initialized one locked and two sampled axes
C6_Witness ==
    /\ pc = "head"
    /\ variant = "image"
    /\ axis_count = 3
    /\ locked_axes = 1
    /\ best_axes[2] # best_axes[3]
    /\ IsUnit(best_axes[3])

-----------------------------------------------------------------------------
(* evaluate_axes_cost of image_optimizer.cc: the OpenMP sampling loop.       *)
(* The threads of the team take the iterations a of the parallel for in any  *)
(* distribution; each computes the volume of its sample into a private       *)
(* variable and adds it to the shared sum_volume inside the unnamed critical *)
(* section; after the join the master divides by attempt_count.              *)
(* o_vols[a] is what find_kdop_volume returns for sample a: it depends on    *)
(* seed + a, the image and the axes only, so it is fixed per iteration.      *)
(* Volumes are small integers, which float addition sums exactly in every    *)
(* order.                                                                    *)

\* size of the OpenMP thread team (chosen by the runtime)
MaxThreads == 2

\* attempt_count of the modelled call (10000 in the program)
MaxAttempts == 3

\* volumes returned for the samples
VolumePool == {0, 1, 4}

Threads == DOMAIN o_pc

\* main is inside the call evaluate_axes_cost(...) of its loop body
DriverInCall ==
    /\ variant = "image"
    /\ pc = "head"
    /\ axis_count = 0
    /\ forced = <<>>
    /\ locked_axes = 0
    /\ best_axes = <<>>
    /\ best_score = InitialBest("image")
    /\ no_improvement = 0
    /\ perturbation = InitialRadius("image")
    /\ axes = <<>>
    /\ cur_score = NaNScore
    /\ printed = <<>>

InitOmp ==
    /\ DriverInCall
    /\ KdopIdle
    /\ SampleIdle
    /\ \E t \in 1..MaxThreads :
         /\ o_pc = [w \in 1..t |-> "next"]
         /\ o_a = [w \in 1..t |-> 0]
         /\ o_volume = [w \in 1..t |-> 0]
         /\ o_reg = [w \in 1..t |-> 0]
    /\ \E n \in 1..MaxAttempts :
         /\ o_vols \in [1..n -> VolumePool]
         /\ o_todo = 1..n
    /\ sum_volume = 0
    /\ o_lock = 0
    /\ o_result = <<>>

\* thread w takes an iteration of the parallel for that no thread has taken
TakeIteration(w) ==
    /\ o_pc[w] = "next"
    /\ \E a \in o_todo :
         /\ o_a' = [o_a EXCEPT ![w] = a]
         /\ o_todo' = o_todo \ {a}
    /\ o_pc' = [o_pc EXCEPT ![w] = "sample"]
    /\ UNCHANGED <<o_volume, o_reg, o_vols, sum_volume, o_lock, o_result>>
    /\ UNCHANGED <<drvVars, kdopVars, smpVars>>

\* float volume = find_kdop_volume(neighborhood, axes, axis_count);
ComputeVolume(w) ==
    /\ o_pc[w] = "sample"
    /\ o_volume' = [o_volume EXCEPT ![w] = o_vols[o_a[w]]]
    /\ o_pc' = [o_pc EXCEPT ![w] = "enter"]
    /\ UNCHANGED <<o_a, o_reg, o_todo, o_vols, sum_volume, o_lock, o_result>>
    /\ UNCHANGED <<drvVars, kdopVars, smpVars>>

\* the same entry without mutual exclusion
EnterUnlocked(w) ==
    /\ o_pc[w] = "enter"
    /\ o_pc' = [o_pc EXCEPT ![w] = "load"]
    /\ UNCHANGED <<o_lock, o_a, o_volume, o_reg, o_todo, o_vols, sum_volume,
                   o_result>>
    /\ UNCHANGED <<drvVars, kdopVars, smpVars>>

\* #pragma omp critical: entry, one thread at a time
EnterCritical(w) ==
    /\ o_pc[w] = "enter"
    /\ o_lock = 0
    /\ o_lock' = w
    /\ o_pc' = [o_pc EXCEPT ![w] = "load"]
    /\ UNCHANGED <<o_a, o_volume, o_reg, o_todo, o_vols, sum_volume, o_result>>
    /\ UNCHANGED <<drvVars, kdopVars, smpVars>>

\* sum_volume += volume, first half: read the shared sum
LoadSum(w) ==
    /\ o_pc[w] = "load"
    /\ o_reg' = [o_reg EXCEPT ![w] = sum_volume]
    /\ o_pc' = [o_pc EXCEPT ![w] = "store"]
    /\ UNCHANGED <<o_a, o_volume, o_todo, o_vols, sum_volume, o_lock, o_result>>
    /\ UNCHANGED <<drvVars, kdopVars, smpVars>>

\* sum_volume += volume, second half: write the sum back; leave the critical
\* section and the iteration
StoreSum(w) ==
    /\ o_pc[w] = "store"
    /\ sum_volume' = o_reg[w] + o_volume[w]
    /\ o_lock' = IF o_lock = w THEN 0 ELSE o_lock
    /\ o_a' = [o_a EXCEPT ![w] = 0]
    /\ o_pc' = [o_pc EXCEPT ![w] = "next"]
    /\ UNCHANGED <<o_volume, o_reg, o_todo, o_vols, o_result>>
    /\ UNCHANGED <<drvVars, kdopVars, smpVars>>

\* no iteration is left: thread w waits at the barrier that ends the loop
Join(w) ==
    /\ o_pc[w] = "next"
    /\ o_todo = {}
    /\ o_pc' = [o_pc EXCEPT ![w] = "joined"]
    /\ UNCHANGED <<o_a, o_volume, o_reg, o_todo, o_vols, sum_volume, o_lock,
                   o_result>>
    /\ UNCHANGED <<drvVars, kdopVars, smpVars>>

\* sum_volume /= attempt_count; return sum_volume;   (<<s, n>> stands for s/n)
Divide ==
    /\ o_result = <<>>
    /\ \A w \in Threads : o_pc[w] = "joined"
    /\ o_result' = <<sum_volume, Len(o_vols)>>
    /\ UNCHANGED <<o_pc, o_a, o_volume, o_reg, o_todo, o_vols, sum_volume,
                   o_lock>>
    /\ UNCHANGED <<drvVars, kdopVars, smpVars>>

NextOmp ==
    \/ \E w \in Threads : TakeIteration(w)
    \/ \E w \in Threads : ComputeVolume(w)
    \/ \E w \in Threads : EnterCritical(w)
    \/ \E w \in Threads : LoadSum(w)
    \/ \E w \in Threads : StoreSum(w)
    \/ \E w \in Threads : Join(w)
    \/ Divide

SpecOmp == InitOmp /\ [][NextOmp]_vars

RECURSIVE SumOver(_, _)
SumOver(f, S) ==
    IF S = {} THEN 0
    ELSE LET a == CHOOSE x \in S : TRUE IN f[a] + SumOver(f, S \ {a})

\* iterations whose addition to sum_volume is complete
Added ==
    { a \in DOMAIN o_vols :
        a \notin o_todo /\ \A w \in Threads : o_a[w] # a }

\* C7: every sample's volume is added to the shared sum exactly once: at
\* every moment sum_volume is the sum of the volumes of exactly the iterations
\* that have finished their critical section, and the value returned is the
\* sum of all individual volumes divided by the sample count.
C7_EverySampleAddedOnce ==
    /\ sum_volume = SumOver(o_vols, Added)
    /\ o_result # <<>> =>
         /\ Added = DOMAIN o_vols
         /\ o_result = <<SumOver(o_vols, DOMAIN o_vols), Len(o_vols)>>

\* two threads shared three samples with volumes 1, 4, 4; the call returned
C7_Witness ==
    /\ o_result = <<9, 3>>
    /\ Len(o_pc) = 2
    /\ o_vols = <<1, 4, 4>>

-----------------------------------------------------------------------------
(* kdop_volume.hh: the double arithmetic of the volume kernel.               *)
(* A double is <<n, d, k>>: the value (n/d) * FLT_MAX^k in lowest terms,     *)
(* d > 0; d = 0 encodes the specials: <<1,0,0>> +inf, <<-1,0,0>> -inf,       *)
(* <<0,0,0>> NaN.  FLT_MAX (3.4e38) exceeds 2^53 times every other finite    *)
(* magnitude the kernel computes on the explored inputs, so a sum of terms   *)
(* of different order k rounds to the term of the higher order, as the       *)
(* double sum does.  Axes with components in {0, 1, -1} and small integer    *)
(* ranges are exact in float, and every other operation on them is exact in  *)
(* double.                                                                   *)

RECURSIVE Gcd(_, _)
Gcd(a, b) == IF b = 0 THEN a ELSE Gcd(b, a % b)

QNorm(n, d, k) ==
    IF n = 0 THEN <<0, 1, 0>>
    ELSE LET g == Gcd(Abs(n), d) IN <<n \div g, d \div g, k>>

QInt(n) == <<n, 1, 0>>
QNaN == <<0, 0, 0>>
QInf(s) == <<s, 0, 0>>
QZero == <<0, 1, 0>>

IsNaN(x) == x[2] = 0 /\ x[1] = 0
IsInf(x) == x[2] = 0 /\ x[1] # 0
Sign(n) == IF n > 0 THEN 1 ELSE IF n < 0 THEN -1 ELSE 0

QNeg(x) == <<-x[1], x[2], x[3]>>

QAdd(x, y) ==
    IF IsNaN(x) \/ IsNaN(y) THEN QNaN
    ELSE IF IsInf(x) THEN (IF IsInf(y) /\ y[1] # x[1] THEN QNaN ELSE x)
    ELSE IF IsInf(y) THEN y
    ELSE IF x[1] = 0 THEN y
    ELSE IF y[1] = 0 THEN x
    ELSE IF x[3] > y[3] THEN x
    ELSE IF y[3] > x[3] THEN y
    ELSE LET g == Gcd(x[2], y[2])
         IN  QNorm(x[1] * (y[2] \div g) + y[1] * (x[2] \div g),
                   (x[2] \div g) * y[2], x[3])

QSub(x, y) == QAdd(x, QNeg(y))

QMul(x, y) ==
    IF IsNaN(x) \/ IsNaN(y) THEN QNaN
    ELSE IF IsInf(x) \/ IsInf(y)
         THEN (IF x[1] = 0 \/ y[1] = 0 THEN QNaN
               ELSE QInf(Sign(x[1]) * Sign(y[1])))
    ELSE IF x[1] = 0 \/ y[1] = 0 THEN QZero
    ELSE LET g1 == Gcd(Abs(x[1]), y[2])
             g2 == Gcd(Abs(y[1]), x[2])
         IN  << (x[1] \div g1) * (y[1] \div g2),
                (x[2] \div g2) * (y[2] \div g1),
                x[3] + y[3] >>

\* 1.0f / x
QInv(x) ==
    IF IsNaN(x) THEN QNaN
    ELSE IF IsInf(x) THEN QZero
    ELSE IF x[1] = 0 THEN QInf(1)
    ELSE << Sign(x[1]) * x[2], Abs(x[1]), -x[3] >>

\* x < y; false when either is NaN
\* n1/d1 < n2/d2 for d1, d2 > 0, by integer parts and then remainders
FracLess(n1, d1, n2, d2) ==
    LET q1 == n1 \div d1
        q2 == n2 \div d2
    IN  q1 < q2 \/ (q1 = q2 /\ (n1 % d1) * d2 < (n2 % d2) * d1)

QLt(x, y) ==
    IF IsNaN(x) \/ IsNaN(y) THEN FALSE
    ELSE IF Sign(x[1]) # Sign(y[1]) THEN Sign(x[1]) < Sign(y[1])
    ELSE IF x[1] = 0 THEN FALSE
    ELSE IF IsInf(x) \/ IsInf(y)
         THEN (IF x[1] > 0 THEN ~IsInf(x) ELSE ~IsInf(y))
    ELSE IF x[3] # y[3]
         THEN (IF x[1] > 0 THEN x[3] < y[3] ELSE y[3] < x[3])
    ELSE FracLess(x[1], x[2], y[1], y[2])

QAbs(x) == <<Abs(x[1]), x[2], x[3]>>

\* glm::min(x, y) is (y < x) ? y : x and glm::max(x, y) is (x < y) ? y : x
QMin(x, y) == IF QLt(y, x) THEN y ELSE x
QMax(x, y) == IF QLt(x, y) THEN y ELSE x

\* FLT_MAX
FltMax == <<1, 1, 1>>

VAdd(u, v) == <<QAdd(u[1], v[1]), QAdd(u[2], v[2]), QAdd(u[3], v[3])>>
VSub(u, v) == <<QSub(u[1], v[1]), QSub(u[2], v[2]), QSub(u[3], v[3])>>
VScale(c, v) == <<QMul(c, v[1]), QMul(c, v[2]), QMul(c, v[3])>>
VDot(u, v) ==
    QAdd(QAdd(QMul(u[1], v[1]), QMul(u[2], v[2])), QMul(u[3], v[3]))
VCross(u, v) ==
    << QSub(QMul(u[2], v[3]), QMul(v[2], u[3])),
       QSub(QMul(u[3], v[1]), QMul(v[3], u[1])),
       QSub(QMul(u[1], v[2]), QMul(v[1], u[2])) >>
VInt(x, y, z) == <<QInt(x), QInt(y), QInt(z)>>

\* the thresholds 1e-7 of kdop_trace_range and 1e-5 of calc_kdop_volume
Eps7 == <<1, 10000000, 0>>
Epsilon == <<1, 100000, 0>>

\* x < epsilon * epsilon
BelowEpsilonSquared(x) == QLt(QMul(x, QInt(100000)), Epsilon)

\* kdop_trace_range, the loop from axis a on with the interval found so far
RECURSIVE TraceFrom(_, _, _, _, _, _, _, _)
TraceFrom(a, near, far, pos, dir, ax, rg, excluded) ==
    IF a > Len(ax) THEN <<near, far>>
    ELSE IF a \in excluded
         THEN TraceFrom(a + 1, near, far, pos, dir, ax, rg, excluded)
    ELSE LET proj_pos == VDot(pos, ax[a])
             d == VDot(dir, ax[a])
         IN  IF QLt(QAbs(d), Eps7)
             THEN TraceFrom(a + 1, near, far, pos, dir, ax, rg, excluded)
             ELSE LET inv_dir == QInv(d)
                      t0 == QMul(QSub(rg[a][1], proj_pos), inv_dir)
                      t1 == QMul(QSub(rg[a][2], proj_pos), inv_dir)
                      t_min == QMin(t0, t1)
                      t_max == QMax(t0, t1)
                  IN  CHOOSE r \in
                        { TraceFrom(a + 1, s[1], s[2], pos, dir, ax, rg,
                                    excluded) :
                            s \in {<<QMax(near, t_min), QMin(far, t_max)>>} } :
                        TRUE

kdop_trace_range(pos, dir, ax, rg, excluded) ==
    TraceFrom(1, QNeg(FltMax), FltMax, pos, dir, ax, rg, excluded)

\* kdop_distance, the loop from axis a on with the maximum found so far
RECURSIVE DistanceFrom(_, _, _, _, _)
DistanceFrom(a, max_dist, pos, ax, rg) ==
    IF a > Len(ax) THEN max_dist
    ELSE LET proj_pos == VDot(pos, ax[a])
             distance == IF QLt(proj_pos, rg[a][1])
                         THEN QSub(rg[a][1], proj_pos)
                         ELSE IF QLt(rg[a][2], proj_pos)
                              THEN QSub(proj_pos, rg[a][2])
                              ELSE QZero
         IN  CHOOSE r \in
               { DistanceFrom(a + 1, s, pos, ax, rg) :
                   s \in {IF QLt(max_dist, distance) THEN distance
                          ELSE max_dist} } : TRUE

kdop_distance(pos, ax, rg) == DistanceFrom(1, QZero, pos, ax, rg)

\* abs(x) < M_1_SQRT3, for a value of order 0
BelowInvSqrt3(x) == QLt(QMul(QMul(x, x), QInt(3)), QInt(1))

\* glm::normalize(v) is v * inversesqrt(dot(v, v)).  A vector whose squared
\* length is not the square of a rational keeps its length: signed_angle
\* orders by the direction of tangent and bitangent only.
VNormalize(v) ==
    LET l2 == VDot(v, v)
    IN  IF IsNaN(l2) \/ IsInf(l2) \/ l2[3] # 0 THEN <<QNaN, QNaN, QNaN>>
        ELSE IF l2[1] = 0 THEN VScale(QInf(1), v)
        ELSE IF ISqrt(l2[1]) * ISqrt(l2[1]) = l2[1]
                /\ ISqrt(l2[2]) * ISqrt(l2[2]) = l2[2]
             THEN VScale(<<ISqrt(l2[2]), ISqrt(l2[1]), 0>>, v)
        ELSE v

create_tangent_space(normal) ==
    LET major == IF BelowInvSqrt3(normal[1]) THEN VInt(1, 0, 0)
                 ELSE IF BelowInvSqrt3(normal[2]) THEN VInt(0, 1, 0)
                 ELSE VInt(0, 0, 1)
        tangent == VNormalize(VCross(normal, major))
        bitangent == VCross(normal, tangent)
    IN  <<tangent, bitangent, normal>>

\* magnitude order of a double: the power of FLT_MAX it is a multiple of
Order(x) == IF IsInf(x) THEN 99 ELSE x[3]

\* atan2(y, x) as the interval of [-pi, pi] it falls in, in increasing order:
\*   0: -pi   1: (-pi, -pi/2)   2: -pi/2   3: (-pi/2, 0)   4: 0
\*   5: (0, pi/2)   6: pi/2   7: (pi/2, pi)   8: pi
\* When one argument is FLT_MAX times the other, the double result is
\* exactly +-pi/2 (y dominates) or exactly +-pi (x < 0 dominates).
Atan2Sector(y, x) ==
    IF y[1] # 0 /\ (x[1] = 0 \/ Order(y) > Order(x))
    THEN (IF y[1] < 0 THEN 2 ELSE 6)
    ELSE IF x[1] < 0 /\ (y[1] = 0 \/ Order(x) > Order(y))
    THEN (IF y[1] < 0 THEN 0 ELSE 8)
    ELSE IF y[1] = 0 THEN 4
    ELSE IF y[1] < 0 THEN (IF x[1] < 0 THEN 1 ELSE 3)
    ELSE (IF x[1] > 0 THEN 5 ELSE 7)

\* the arguments <<y, x>> that signed_angle passes to atan2
signed_angle(p, pivot, tbn) ==
    LET delta == VSub(p, pivot)
    IN  <<VDot(tbn[1], delta), VDot(tbn[2], delta)>>

\* atan2(s[1], s[2]) < atan2(t[1], t[2])
AngleLess(s, t) ==
    /\ ~IsNaN(s[1]) /\ ~IsNaN(s[2]) /\ ~IsNaN(t[1]) /\ ~IsNaN(t[2])
    /\ LET cs == Atan2Sector(s[1], s[2])
           ct == Atan2Sector(t[1], t[2])
       IN  \/ cs < ct
           \/ /\ cs = ct
              /\ cs \in {1, 3, 5, 7}
              /\ QLt(QZero, QSub(QMul(s[2], t[1]), QMul(s[1], t[2])))

\* every vertex paired with the atan2 arguments that the comparison handed
\* to std::sort computes for it: <<signed_angle(v, ref, tbn), v>>, from
\* vertex i on
RECURSIVE KeyedFrom(_, _, _, _, _)
KeyedFrom(vs, i, ref, tbn, out) ==
    IF i > Len(vs) THEN out
    ELSE CHOOSE r \in
           { KeyedFrom(vs, i + 1, ref, tbn, s) :
               s \in {Append(out, <<signed_angle(vs[i], ref, tbn), vs[i]>>)} } :
           TRUE

\* std::sort on at most 16 elements is the insertion sort of libstdc++:
\* an element that compares below the first goes to the front, any other
\* moves down while it compares below its predecessor.  The comparison is
\* signed_angle(a, ref, tbn) < signed_angle(b, ref, tbn).
RECURSIVE LinearInsert(_, _, _)
LinearInsert(sorted, val, j) ==
    IF AngleLess(val[1], sorted[j][1])
    THEN LinearInsert(sorted, val, j - 1)
    ELSE SubSeq(sorted, 1, j) \o <<val>> \o SubSeq(sorted, j + 1, Len(sorted))

RECURSIVE SortFrom(_, _, _)
SortFrom(sorted, ks, i) ==
    IF i > Len(ks) THEN sorted
    ELSE CHOOSE r \in
           { SortFrom(s, ks, i + 1) :
               s \in {IF AngleLess(ks[i][1], sorted[1][1])
                      THEN <<ks[i]>> \o sorted
                      ELSE LinearInsert(sorted, ks[i], Len(sorted))} } : TRUE

\* the vertices of the sorted pairs, from pair i on
RECURSIVE UnkeyedFrom(_, _, _)
UnkeyedFrom(ks, i, out) ==
    IF i > Len(ks) THEN out
    ELSE CHOOSE r \in
           { UnkeyedFrom(ks, i + 1, s) : s \in {Append(out, ks[i][2])} } : TRUE

SortVertices(vs, ref, tbn) ==
    IF Len(vs) <= 1 THEN vs
    ELSE CHOOSE r \in
           { UnkeyedFrom(SortFrom(<<ks[1]>>, ks, 2), 1, <<>>) :
               ks \in {KeyedFrom(vs, 1, ref, tbn, <<>>)} } : TRUE

\* the same loop keeping every vertex
RECURSIVE KeepFrom(_, _, _, _)
KeepFrom(vs, i, prev, out) ==
    IF i > Len(vs) THEN out
    ELSE CHOOSE r \in
           { KeepFrom(vs, i + 1, vs[i], s) : s \in {Append(out, vs[i])} } :
           TRUE

\* the de-duplication loop from element i on: prev is the last vertex kept
\* (at first the last of the sorted list), out the vertices kept so far
RECURSIVE DedupeFrom(_, _, _, _)
DedupeFrom(vs, i, prev, out) ==
    IF i > Len(vs) THEN out
    ELSE LET delta == VSub(prev, vs[i])
         IN  IF BelowEpsilonSquared(VDot(delta, delta))
             THEN DedupeFrom(vs, i + 1, prev, out)
             ELSE CHOOSE r \in
                    { DedupeFrom(vs, i + 1, vs[i], s) :
                        s \in {Append(out, vs[i])} } : TRUE

Dedupe(vs) == DedupeFrom(vs, 1, vs[Len(vs)], <<>>)

\* conversion of a double to float: beyond FLT_MAX it is an infinity
ToFloat(x) ==
    IF x[2] = 0 \/ x[3] < 1 THEN (IF x[2] # 0 /\ x[3] < 0 THEN QZero ELSE x)
    ELSE IF x[3] > 1 \/ Abs(x[1]) > x[2] THEN QInf(Sign(x[1]))
    ELSE x

\* dvec4(v, 1) stored into a column of the float mat4
Column(v) == <<ToFloat(v[1]), ToFloat(v[2]), ToFloat(v[3]), QInt(1)>>

\* glm::determinant of the 4x4 matrix with columns m[1..4] (m[c][r])
determinant(m) ==
    LET S00 == QSub(QMul(m[3][3], m[4][4]), QMul(m[4][3], m[3][4]))
        S01 == QSub(QMul(m[3][2], m[4][4]), QMul(m[4][2], m[3][4]))
        S02 == QSub(QMul(m[3][2], m[4][3]), QMul(m[4][2], m[3][3]))
        S03 == QSub(QMul(m[3][1], m[4][4]), QMul(m[4][1], m[3][4]))
        S04 == QSub(QMul(m[3][1], m[4][3]), QMul(m[4][1], m[3][3]))
        S05 == QSub(QMul(m[3][1], m[4][2]), QMul(m[4][1], m[3][2]))
        C0 == QAdd(QSub(QMul(m[2][2], S00), QMul(m[2][3], S01)),
                   QMul(m[2][4], S02))
        C1 == QNeg(QAdd(QSub(QMul(m[2][1], S00), QMul(m[2][3], S03)),
                        QMul(m[2][4], S04)))
        C2 == QAdd(QSub(QMul(m[2][1], S01), QMul(m[2][2], S03)),
                   QMul(m[2][4], S05))
        C3 == QNeg(QAdd(QSub(QMul(m[2][1], S02), QMul(m[2][2], S04)),
                        QMul(m[2][3], S05)))
    IN  QAdd(QAdd(QAdd(QMul(m[1][1], C0), QMul(m[1][2], C1)),
                  QMul(m[1][3], C2)),
             QMul(m[1][4], C3))

\* the tetrahedron fan of one side from vertex i on
RECURSIVE FanFrom(_, _, _, _, _, _)
FanFrom(vs, i, va, ref2, center, total) ==
    IF i > Len(vs) THEN total
    ELSE LET vb == vs[i]
             m == <<Column(va), Column(vb), Column(ref2), Column(center)>>
             volume == QMul(QAbs(determinant(m)), <<1, 6, 0>>)
         IN  CHOOSE r \in
               { FanFrom(vs, i + 1, vb, ref2, center, s) :
                   s \in {QAdd(total, volume)} } : TRUE

\* ref: the sum of the vertices of a side divided by their number
RECURSIVE VSum(_, _, _)
VSum(vs, i, acc) ==
    IF i > Len(vs) THEN acc
    ELSE CHOOSE r \in
           { VSum(vs, i + 1, s) : s \in {VAdd(acc, vs[i])} } : TRUE

Centroid(vs) == VScale(<<1, Len(vs), 0>>, VSum(vs, 1, VInt(0, 0, 0)))

-----------------------------------------------------------------------------
(* calc_kdop_volume as a state machine.  k_pos is <<a, b, i>> in the edge    *)
(* loop (0-based as in the code) and the side index i in the side loop;      *)
(* sides[s + 1] is sides[s].vertices.                                        *)

\* largest axis_count explored
MaxAxes == 3

\* the axis (0.6, 0.8, 0): not parallel and not orthogonal to x and y
DiagonalAxis == <<<<3, 5, 0>>, <<4, 5, 0>>, QZero>>

\* axes: unit vectors
AxisPool == { VInt(1, 0, 0), VInt(0, 1, 0), VInt(0, 0, 1), VInt(-1, 0, 0),
              DiagonalAxis }

\* ranges (low, high); find_kdop_volume yields low = high on a flat image
RangePool == { <<QInt(-1), QInt(1)>>, <<QInt(0), QInt(2)>>,
               <<QInt(1), QInt(1)>> }

InitKdop ==
    /\ DriverInCall
    /\ OmpIdle
    /\ SampleIdle
    /\ \E n \in 1..MaxAxes :
         /\ k_axes \in [1..n -> AxisPool]
         \* 0.6f and 0.8f are rounded, so in the code's arithmetic the dot
         \* product of two copies of the diagonal axis is not 1: the exact
         \* arithmetic used here stands for the code only with one copy
         /\ Cardinality({ a \in 1..n : k_axes[a] = DiagonalAxis }) <= 1
         /\ k_ranges \in [1..n -> RangePool]
         /\ sides = [s \in 1..(2 * n) |-> <<>>]
    /\ k_pc = "edges"
    /\ k_pos = <<0, 0, 0>>
    /\ ref_center = VInt(0, 0, 0)
    /\ total_volume = QZero

\* the position after the inner loop of the pair (a, b) is over
NextPair(a, b) ==
    IF b + 1 < Len(k_axes) THEN <<a, b + 1, 0>> ELSE <<a + 1, 0, 0>>

\* if(b == a) continue;
SkipSelfPair ==
    /\ k_pc = "edges"
    /\ k_pos[1] < Len(k_axes)
    /\ k_pos[2] = k_pos[1]
    /\ k_pos' = NextPair(k_pos[1], k_pos[2])
    /\ UNCHANGED <<k_pc, k_axes, k_ranges, sides, ref_center, total_volume>>
    /\ UNCHANGED <<drvVars, ompVars, smpVars>>

\* dir = cross(a_axis, b_axis)
EdgeDir(a, b) == VCross(k_axes[a + 1], k_axes[b + 1])

\* the point of iteration i on the line where the planes a and b of the
\* k-DOP (ax, rg) meet
EdgePointOf(ax, rg, a, b, i) ==
    LET a_axis == ax[a + 1]
        b_axis == ax[b + 1]
        d == VDot(a_axis, b_axis)
        inv == QInv(QSub(QInt(1), QMul(d, d)))
        h1 == rg[a + 1][(i % 2) + 1]
        h2 == rg[b + 1][(i \div 2) + 1]
        c1 == QMul(QSub(h1, QMul(h2, d)), inv)
        c2 == QMul(QSub(h2, QMul(h1, d)), inv)
    IN  VAdd(VScale(c1, a_axis), VScale(c2, b_axis))

EdgePoint(a, b, i) == EdgePointOf(k_axes, k_ranges, a, b, i)

\* both ends of the traced interval, whatever their distance to the k-DOP
EdgeEndsUnfiltered(ax, rg, point, dir, hits) ==
    IF QLt(hits[2], hits[1]) THEN <<>>
    ELSE <<VAdd(point, VScale(hits[1], dir)),
           VAdd(point, VScale(hits[2], dir))>>

\* the ends va, vb of the traced interval that lie within epsilon of the
\* k-DOP, in the order they are appended; none if hits.first > hits.second
EdgeEndsOf(ax, rg, point, dir, hits) ==
    IF QLt(hits[2], hits[1]) THEN <<>>
    ELSE LET va == VAdd(point, VScale(hits[1], dir))
             vb == VAdd(point, VScale(hits[2], dir))
         IN  (IF QLt(kdop_distance(va, ax, rg), Epsilon)
              THEN <<va>> ELSE <<>>)
             \o
             (IF QLt(kdop_distance(vb, ax, rg), Epsilon)
              THEN <<vb>> ELSE <<>>)

EdgeEnds(point, dir, hits) == EdgeEndsOf(k_axes, k_ranges, point, dir, hits)

\* one iteration of for(int i = 0; i < 4; ++i) for a pair of distinct axes
TraceEdge ==
    /\ k_pc = "edges"
    /\ k_pos[1] < Len(k_axes)
    /\ k_pos[2] # k_pos[1]
    /\ LET a == k_pos[1]
           b == k_pos[2]
           i == k_pos[3]
           a_side == a * 2 + (i % 2)
           b_side == b * 2 + (i \div 2)
       IN  \E point \in {EdgePoint(a, b, i)}, dir \in {EdgeDir(a, b)} :
           \E hits \in {kdop_trace_range(point, dir, k_axes, k_ranges,
                                         {a + 1, b + 1})} :
           \E found \in {EdgeEnds(point, dir, hits)} :
             /\ sides' = [sides EXCEPT ![a_side + 1] = @ \o found,
                                       ![b_side + 1] = @ \o found]
             /\ k_pos' = IF i < 3 THEN <<a, b, i + 1>> ELSE NextPair(a, b)
    /\ UNCHANGED <<k_pc, k_axes, k_ranges, ref_center, total_volume>>
    /\ UNCHANGED <<drvVars, ompVars, smpVars>>

\* the sum of the first two vertices of that side: a point outside the k-DOP
SumOfFirstTwo(sd, s) ==
    IF s > Len(sd) THEN VInt(0, 0, 0)
    ELSE LET big == { t \in s..Len(sd) : Len(sd[t]) > 2 }
         IN  IF big = {} THEN VInt(0, 0, 0)
             ELSE LET t == CHOOSE t \in big : \A u \in big : t <= u
                  IN  VAdd(sd[t][1], sd[t][2])

\* the first vertex of the first side that has more than two, else 0
FirstVertexOf(sd, s) ==
    IF s > Len(sd) THEN VInt(0, 0, 0)
    ELSE LET big == { t \in s..Len(sd) : Len(sd[t]) > 2 }
         IN  IF big = {} THEN VInt(0, 0, 0)
             ELSE sd[CHOOSE t \in big : \A u \in big : t <= u][1]

FirstVertex(s) == FirstVertexOf(sides, s)

\* the edge loop is over: find ref_center
FindRefCenter ==
    /\ k_pc = "edges"
    /\ k_pos[1] >= Len(k_axes)
    /\ ref_center' = FirstVertex(1)
    /\ k_pc' = "sides"
    /\ k_pos' = 0
    /\ UNCHANGED <<k_axes, k_ranges, sides, total_volume>>
    /\ UNCHANGED <<drvVars, ompVars, smpVars>>

\* if(si.vertices.size() <= 2) continue;
SkipSide ==
    /\ k_pc = "sides"
    /\ k_pos < Len(sides)
    /\ Len(sides[k_pos + 1]) <= 2
    /\ k_pos' = k_pos + 1
    /\ UNCHANGED <<k_pc, k_axes, k_ranges, sides, ref_center, total_volume>>
    /\ UNCHANGED <<drvVars, ompVars, smpVars>>

\* a side with more than two vertices: sort, de-duplicate, add its fan
ProcessSide ==
    /\ k_pc = "sides"
    /\ k_pos < Len(sides)
    /\ Len(sides[k_pos + 1]) > 2
    /\ \E vs \in {sides[k_pos + 1]},
          tbn \in {create_tangent_space(k_axes[(k_pos \div 2) + 1])} :
       \E ref \in {Centroid(vs)} :
       \E sorted \in {SortVertices(vs, ref, tbn)} :
       \E unique \in {Dedupe(sorted)} :
         /\ sides' = [sides EXCEPT ![k_pos + 1] = unique]
         /\ total_volume' =
              IF Len(unique) <= 2 THEN total_volume
              ELSE FanFrom(unique, 3, unique[2], unique[1], ref_center,
                           total_volume)
    /\ k_pos' = k_pos + 1
    /\ UNCHANGED <<k_pc, k_axes, k_ranges, ref_center>>
    /\ UNCHANGED <<drvVars, ompVars, smpVars>>

\* return total_volume;
ReturnVolume ==
    /\ k_pc = "sides"
    /\ k_pos = Len(sides)
    /\ k_pc' = "done"
    /\ UNCHANGED <<k_axes, k_ranges, sides, k_pos, ref_center, total_volume>>
    /\ UNCHANGED <<drvVars, ompVars, smpVars>>

NextKdop ==
    \/ SkipSelfPair
    \/ TraceEdge
    \/ FindRefCenter
    \/ SkipSide
    \/ ProcessSide
    \/ ReturnVolume

SpecKdop == InitKdop /\ [][NextKdop]_vars

-----------------------------------------------------------------------------
(* calc_kdop_volume as a function of its arguments: the same steps as the    *)
(* actions above, composed.                                                  *)

\* the vertex lists once the edge loop has run from <<a, b, i>> to its end
RECURSIVE EdgeLoopFrom(_, _, _, _)
EdgeLoopFrom(ax, rg, pos, sd) ==
    LET a == pos[1]
        b == pos[2]
        i == pos[3]
        next == IF a # b /\ i < 3 THEN <<a, b, i + 1>>
                ELSE IF b + 1 < Len(ax) THEN <<a, b + 1, 0>>
                ELSE <<a + 1, 0, 0>>
    IN  IF a >= Len(ax) THEN sd
        ELSE IF b = a THEN EdgeLoopFrom(ax, rg, next, sd)
        ELSE CHOOSE r \in
               { EdgeLoopFrom(ax, rg, next,
                     [sd EXCEPT ![a * 2 + (i % 2) + 1] = @ \o found,
                                ![b * 2 + (i \div 2) + 1] = @ \o found]) :
                 found \in
                   { EdgeEndsOf(ax, rg, point[1], point[2],
                         kdop_trace_range(point[1], point[2], ax, rg,
                                          {a + 1, b + 1})) :
                     point \in { <<EdgePointOf(ax, rg, a, b, i),
                                   VCross(ax[a + 1], ax[b + 1])>> } } } : TRUE

\* total_volume once the side loop has run from side s (1-based) to its end
RECURSIVE SideLoopFrom(_, _, _, _, _)
SideLoopFrom(ax, sd, s, center, total) ==
    IF s > Len(sd) THEN total
    ELSE IF Len(sd[s]) <= 2 THEN SideLoopFrom(ax, sd, s + 1, center, total)
    ELSE CHOOSE r \in
           { SideLoopFrom(ax, sd, s + 1, center,
                 IF Len(unique) <= 2 THEN total
                 ELSE FanFrom(unique, 3, unique[2], unique[1], center,
                              total)) :
             unique \in
               { Dedupe(SortVertices(sd[s], ref,
                     create_tangent_space(ax[((s - 1) \div 2) + 1]))) :
                 ref \in { Centroid(sd[s]) } } } : TRUE

calc_kdop_volume(ax, rg) ==
    CHOOSE r \in
      { SideLoopFrom(ax, sd, 1, FirstVertexOf(sd, 1), QZero) :
        sd \in { EdgeLoopFrom(ax, rg, <<0, 0, 0>>,
                              [s \in 1..(2 * Len(ax)) |-> <<>>]) } } : TRUE

-----------------------------------------------------------------------------
(* Claims about calc_kdop_volume.                                            *)

\* the call has returned
Returned == k_pc = "done"

\* the vertices of side s (1-based) as a set
VerticesOf(s) == { sides[s][j] : j \in 1..Len(sides[s]) }

\* the three standard basis axes in some order, extents (-1, 1) on each
CubeInput ==
    /\ Len(k_axes) = 3
    /\ { k_axes[a] : a \in 1..3 } =
         { VInt(1, 0, 0), VInt(0, 1, 0), VInt(0, 0, 1) }
    /\ \A a \in 1..3 : k_ranges[a] = <<QInt(-1), QInt(1)>>

\* C8: for the three standard basis axes in any order with extents (-1, 1)
\* calc_kdop_volume returns 8, and each of the six sides ends with exactly 4
\* vertices, all different, after sorting and de-duplication.
C8_CubeVolume ==
    (Returned /\ CubeInput) =>
        /\ total_volume = QInt(8)
        /\ \A s \in 1..6 :
             Len(sides[s]) = 4 /\ Cardinality(VerticesOf(s)) = 4

\* the cube given as z, x, y has been measured
C8_Witness ==
    /\ Returned
    /\ CubeInput
    /\ k_axes = <<VInt(0, 0, 1), VInt(1, 0, 0), VInt(0, 1, 0)>>
    /\ total_volume = QInt(8)

\* C9: for any axis count, axis set and extents the value returned by
\* calc_kdop_volume is a defined number that is >= 0.
C9_VolumeNonNegative ==
    Returned => (~IsNaN(total_volume) /\ ~QLt(total_volume, QZero))

\* the axis set does not bound a finite region: one axis, or two linearly
\* independent axes
UnboundedInput ==
    \/ Len(k_axes) = 1
    \/ /\ Len(k_axes) = 2
       /\ VCross(k_axes[1], k_axes[2]) # VInt(0, 0, 0)

\* C10: for a single axis or two linearly independent axes calc_kdop_volume
\* finds no qualifying face (no side keeps 3 or more vertices) and returns 0.
C10_UnboundedReturnsZero ==
    (Returned /\ UnboundedInput) =>
        /\ total_volume = QZero
        /\ \A s \in 1..Len(sides) : Len(sides[s]) <= 2

\* the edge loop is at an iteration of a pair of distinct axes
AtEdgeStep ==
    /\ k_pc = "edges"
    /\ k_pos[1] < Len(k_axes)
    /\ k_pos[2] # k_pos[1]

\* the directions of the axes a and b (0-based) are parallel: their dot
\* product is 1 or -1
ParallelPair(a, b) ==
    LET d == VDot(k_axes[a + 1], k_axes[b + 1])
    IN  d = QInt(1) \/ d = QInt(-1)

\* C11: at an iteration of the edge loop for a pair of distinct axes whose
\* directions are parallel, no vertex is appended to the vertex list of any
\* side.
C11_ParallelPairAppendsNothing ==
    [][(AtEdgeStep /\ ParallelPair(k_pos[1], k_pos[2])) => sides' = sides]_vars

\* the axes are linearly independent and every slab has a positive width:
\* the k-DOP is a parallelepiped
BoundedInput ==
    /\ Len(k_axes) = 3
    /\ VDot(k_axes[1], VCross(k_axes[2], k_axes[3])) # QZero
    /\ \A a \in 1..3 : QLt(k_ranges[a][1], k_ranges[a][2])

\* the orders of n arguments
ArgOrders(n) ==
    { p \in [1..n -> 1..n] : \A i, j \in 1..n : p[i] = p[j] => i = j }

\* the sequence q reordered by p
Permuted(q, p) == [i \in DOMAIN q |-> q[p[i]]]

\* C12: for a bounded, non-degenerate k-DOP the volume returned is the same
\* as the volume calc_kdop_volume returns for every joint reordering of the
\* axis array and the extent array.
C12_OrderInvariant ==
    (Returned /\ BoundedInput) =>
        \A p \in ArgOrders(Len(k_axes)) :
            calc_kdop_volume(Permuted(k_axes, p), Permuted(k_ranges, p))
                = total_volume

\* a sheared box given as z, diagonal, x has been measured: its sides were
\* filled in another order than for x, diagonal, z, and ref_center differs
C12_Witness ==
    /\ Returned
    /\ BoundedInput
    /\ k_axes = <<VInt(0, 0, 1), DiagonalAxis, VInt(1, 0, 0)>>
    /\ k_ranges = <<<<QInt(0), QInt(2)>>, <<QInt(-1), QInt(1)>>,
                    <<QInt(-1), QInt(1)>>>>
    /\ total_volume = QInt(10)
    /\ ref_center # FirstVertexOf(
           EdgeLoopFrom(<<k_axes[3], k_axes[2], k_axes[1]>>,
                        <<k_ranges[3], k_ranges[2], k_ranges[1]>>,
                        <<0, 0, 0>>, [s \in 1..6 |-> <<>>]), 1)

-----------------------------------------------------------------------------
(* calc_kdop_volume on a box with one more axis whose slab strictly contains *)
(* the box.                                                                  *)

\* extents wide enough to contain every box of BoxRanges along every axis of
\* AxisPool
WideRange == <<QInt(-3), QInt(3)>>

\* extents of positive width
BoxRanges == { <<QInt(-1), QInt(1)>>, <<QInt(0), QInt(2)>> }

\* the sequence q with x inserted at position at
InsertAt(q, at, x) ==
    [i \in 1..(Len(q) + 1) |->
        IF i < at THEN q[i] ELSE IF i = at THEN x ELSE q[i - 1]]

\* the sequence q without its element at position at
RemoveAt(q, at) ==
    [i \in 1..(Len(q) - 1) |-> IF i < at THEN q[i] ELSE q[i + 1]]

InitRedundant ==
    /\ DriverInCall
    /\ OmpIdle
    /\ SampleIdle
    /\ \E box \in [1..3 -> BoxRanges], extra \in AxisPool, at \in 1..4 :
         /\ k_axes = InsertAt(<<VInt(1, 0, 0), VInt(0, 1, 0),
                                VInt(0, 0, 1)>>, at, extra)
         /\ k_ranges = InsertAt(box, at, WideRange)
    /\ sides = [s \in 1..8 |-> <<>>]
    /\ k_pc = "edges"
    /\ k_pos = <<0, 0, 0>>
    /\ ref_center = VInt(0, 0, 0)
    /\ total_volume = QZero

SpecRedundant == InitRedundant /\ [][NextKdop]_vars

\* C13: when the slab of one (axis, extent) pair strictly contains the box
\* bounded by the other pairs, both sides of that axis end with no vertex and
\* the volume returned is the volume returned for the other pairs alone.
C13_RedundantAxisIgnored ==
    Returned =>
        \A e \in 1..Len(k_axes) :
            k_ranges[e] = WideRange =>
                /\ sides[2 * e - 1] = <<>>
                /\ sides[2 * e] = <<>>
                /\ total_volume = calc_kdop_volume(RemoveAt(k_axes, e),
                                                   RemoveAt(k_ranges, e))

-----------------------------------------------------------------------------
(* Claims about kdop_trace_range and kdop_distance, as calc_kdop_volume      *)
(* calls them.                                                               *)

\* x <= y
QLe(x, y) == QLt(x, y) \/ (x = y /\ ~IsNaN(x))

\* the projection of p on the axis lies within the extents r
WithinSlab(p, axis, r) ==
    LET proj == VDot(p, axis)
    IN  QLe(r[1], proj) /\ QLe(proj, r[2])

\* both ends of the interval hits of the ray pos + t * dir, and with them
\* every point between, lie in every slab that is not excluded
IntervalInside(pos, dir, hits, ax, rg, excluded) ==
    \A a \in (1..Len(ax)) \ excluded :
        /\ WithinSlab(VAdd(pos, VScale(hits[1], dir)), ax[a], rg[a])
        /\ WithinSlab(VAdd(pos, VScale(hits[2], dir)), ax[a], rg[a])

\* C14: whenever the interval [near, far] that kdop_trace_range returns for
\* an edge line has near <= far, the projection of pos + t * dir on every
\* axis other than the two excluded ones is within that axis's extents for
\* every t of the interval.
C14_TraceInsideSlabs ==
    AtEdgeStep =>
        LET a == k_pos[1]
            b == k_pos[2]
            pos == EdgePoint(a, b, k_pos[3])
            dir == EdgeDir(a, b)
            hits == kdop_trace_range(pos, dir, k_axes, k_ranges,
                                     {a + 1, b + 1})
        IN  QLe(hits[1], hits[2]) =>
                IntervalInside(pos, dir, hits, k_axes, k_ranges,
                               {a + 1, b + 1})

\* the amount by which the projection of p on the axis is below r[1] or
\* above r[2]; 0 within the extents
ExcessOf(p, axis, r) ==
    LET proj == VDot(p, axis)
    IN  IF QLt(proj, r[1]) THEN QSub(r[1], proj)
        ELSE IF QLt(r[2], proj) THEN QSub(proj, r[2])
        ELSE QZero

\* the two ends va, vb of the interval traced at this iteration of the edge
\* loop, the points calc_kdop_volume passes to kdop_distance
CandidateEnds ==
    LET a == k_pos[1]
        b == k_pos[2]
        pos == EdgePoint(a, b, k_pos[3])
        dir == EdgeDir(a, b)
        hits == kdop_trace_range(pos, dir, k_axes, k_ranges, {a + 1, b + 1})
    IN  IF QLt(hits[2], hits[1]) THEN {}
        ELSE { VAdd(pos, VScale(hits[1], dir)),
               VAdd(pos, VScale(hits[2], dir)) }

\* what C15 says of the point p
DistanceAsClaimed(p) ==
    LET dist == kdop_distance(p, k_axes, k_ranges)
        all == 1..Len(k_axes)
    IN  /\ dist = QZero <=>
              \A a \in all : WithinSlab(p, k_axes[a], k_ranges[a])
        /\ dist # QZero =>
              /\ \E a \in all : dist = ExcessOf(p, k_axes[a], k_ranges[a])
              /\ \A a \in all :
                    QLe(ExcessOf(p, k_axes[a], k_ranges[a]), dist)
        /\ QLe(QZero, dist)

\* C15: for every point calc_kdop_volume passes to it, kdop_distance returns
\* 0 exactly when the projection of the point on every axis is within that
\* axis's extents, and otherwise the largest amount by which a projection is
\* below min or above max; the value is never negative.
C15_DistanceIsWorstExcess ==
    AtEdgeStep => \A p \in CandidateEnds : DistanceAsClaimed(p)

-----------------------------------------------------------------------------
(* Claims about the vertex lists of calc_kdop_volume.                        *)

\* no two axes are parallel
NonParallelInput ==
    \A a, b \in 1..Len(k_axes) :
        a # b => VCross(k_axes[a], k_axes[b]) # VInt(0, 0, 0)

\* the edge loop has just ended: no side has been sorted yet
AfterEdgeLoop == k_pc = "sides" /\ k_pos = 0

\* the offset of the plane of side s (1-based): ranges[s/2][s%2] in the
\* code's 0-based terms
PlaneOffset(s) == k_ranges[((s - 1) \div 2) + 1][((s - 1) % 2) + 1]

\* the vertex v lies on the plane of side s
OnPlaneOf(v, s) == VDot(v, k_axes[((s - 1) \div 2) + 1]) = PlaneOffset(s)

\* v is an end of an unbounded edge, point - FLT_MAX * dir or
\* point + FLT_MAX * dir: a coordinate of the order of FLT_MAX has absorbed
\* the coordinate of point
EndAtFltMax(v) == \E c \in 1..3 : v[c][2] # 0 /\ v[c][3] >= 1

\* every stored vertex is within epsilon of the k-DOP, lies on the plane of
\* the side that stores it, and is stored by another side as well
StoredVerticesValid ==
    \A s \in 1..Len(sides) : \A j \in 1..Len(sides[s]) :
        /\ QLt(kdop_distance(sides[s][j], k_axes, k_ranges), Epsilon)
        /\ OnPlaneOf(sides[s][j], s)
        /\ \E t \in 1..Len(sides) : t # s /\ sides[s][j] \in VerticesOf(t)

\* the same, the plane being required only of vertices that are not ends at
\* FLT_MAX
StoredVerticesNearValid ==
    \A s \in 1..Len(sides) : \A j \in 1..Len(sides[s]) :
        /\ QLt(kdop_distance(sides[s][j], k_axes, k_ranges), Epsilon)
        /\ EndAtFltMax(sides[s][j]) \/ OnPlaneOf(sides[s][j], s)
        /\ \E t \in 1..Len(sides) : t # s /\ sides[s][j] \in VerticesOf(t)

\* what list q1 has after the first Len(q0) elements
AppendedTo(q0, q1) == SubSeq(q1, Len(q0) + 1, Len(q1))

\* this step appends the same vertices to a's side and to b's side, and
\* nothing to any other side
AppendsToBothSides ==
    LET a_side == k_pos[1] * 2 + (k_pos[3] % 2) + 1
        b_side == k_pos[2] * 2 + (k_pos[3] \div 2) + 1
    IN  /\ \A s \in 1..Len(sides) :
              /\ Len(sides'[s]) >= Len(sides[s])
              /\ SubSeq(sides'[s], 1, Len(sides[s])) = sides[s]
              /\ s \notin {a_side, b_side} => sides'[s] = sides[s]
        /\ AppendedTo(sides[a_side], sides'[a_side])
             = AppendedTo(sides[b_side], sides'[b_side])

-----------------------------------------------------------------------------
(* The body of the side loop on one side whose vertices are less than a few  *)
(* epsilon apart.  Squared distances below epsilon^2 = 1e-10 other than 0    *)
(* are out of the reach of the numbers above, so here lengths are counted in *)
(* units of epsilon / GridPerEpsilon: a vertex VInt(x, y, 0) stands for the  *)
(* point (x, y, 0) * epsilon / GridPerEpsilon.  Sorting by angle does not    *)
(* depend on the unit.                                                       *)

\* epsilon in grid units
GridPerEpsilon == 4

\* dot(delta, delta) < epsilon * epsilon for two vertices on the grid
CloseOnGrid(p, q) ==
    QLt(VDot(VSub(p, q), VSub(p, q)), QInt(GridPerEpsilon * GridPerEpsilon))

\* the de-duplication loop of DedupeFrom on grid vertices
RECURSIVE DedupeGridFrom(_, _, _, _)
DedupeGridFrom(vs, i, prev, out) ==
    IF i > Len(vs) THEN out
    ELSE IF CloseOnGrid(prev, vs[i])
         THEN DedupeGridFrom(vs, i + 1, prev, out)
         ELSE CHOOSE r \in
                { DedupeGridFrom(vs, i + 1, vs[i], s) :
                    s \in {Append(out, vs[i])} } : TRUE

DedupeGrid(vs) == DedupeGridFrom(vs, 1, vs[Len(vs)], <<>>)

\* longest vertex list explored
MaxGridList == 4

\* vertices of a face of the plane z = 0, a few grid units apart
GridPool == { VInt(-1, 5, 0), VInt(-5, 2, 0), VInt(-4, 5, 0), VInt(-2, 8, 0),
              VInt(0, 10, 0) }

\* the side loop is about to start for one axis, (0, 0, 1) with extents
\* (0, 0); its lower side has the listed vertices, its upper side none
InitGrid ==
    /\ DriverInCall
    /\ OmpIdle
    /\ SampleIdle
    /\ k_axes = <<VInt(0, 0, 1)>>
    /\ k_ranges = <<<<QZero, QZero>>>>
    /\ \E n \in 2..MaxGridList : \E vs \in [1..n -> GridPool] :
         /\ sides = <<vs, <<>>>>
         /\ ref_center = FirstVertexOf(<<vs, <<>>>>, 1)
    /\ k_pc = "sides"
    /\ k_pos = 0
    /\ total_volume = QZero

\* ProcessSide on grid vertices
ProcessGridSide ==
    /\ k_pc = "sides"
    /\ k_pos < Len(sides)
    /\ Len(sides[k_pos + 1]) > 2
    /\ \E vs \in {sides[k_pos + 1]},
          tbn \in {create_tangent_space(k_axes[(k_pos \div 2) + 1])} :
       \E ref \in {Centroid(vs)} :
       \E sorted \in {SortVertices(vs, ref, tbn)} :
       \E unique \in {DedupeGrid(sorted)} :
         /\ sides' = [sides EXCEPT ![k_pos + 1] = unique]
         /\ total_volume' =
              IF Len(unique) <= 2 THEN total_volume
              ELSE FanFrom(unique, 3, unique[2], unique[1], ref_center,
                           total_volume)
    /\ k_pos' = k_pos + 1
    /\ UNCHANGED <<k_pc, k_axes, k_ranges, ref_center>>
    /\ UNCHANGED <<drvVars, ompVars, smpVars>>

NextGrid ==
    \/ SkipSide
    \/ ProcessGridSide
    \/ ReturnVolume

SpecGrid == InitGrid /\ [][NextGrid]_vars

\* the side loop is at a side with more than two vertices
AtSideStep ==
    /\ k_pc = "sides"
    /\ k_pos < Len(sides)
    /\ Len(sides[k_pos + 1]) > 2

\* no vertex of the list out is closer than epsilon to the next one, the
\* first being next to the last
NoCloseNeighbours(out) ==
    \A k \in 1..Len(out) :
        Len(out) >= 2 => ~CloseOnGrid(out[k], out[(k % Len(out)) + 1])

\* every vertex of the list orig is in out, or closer than epsilon to a
\* vertex of out
AllRepresented(orig, out) ==
    \A j \in 1..Len(orig) : \E k \in 1..Len(out) :
        orig[j] = out[k] \/ CloseOnGrid(orig[j], out[k])

\* two vertices of the list are not closer than epsilon
TwoDistinct(orig) ==
    \E j, k \in 1..Len(orig) : ~CloseOnGrid(orig[j], orig[k])

\* C17: when the side loop has sorted and de-duplicated a side, no two
\* cyclically consecutive vertices of its list (the last and the first
\* included) are closer than epsilon; if the list had two points not closer
\* than epsilon, each of its points is still represented by a vertex at less
\* than epsilon; and a side left with fewer than 3 vertices adds nothing to
\* the volume.
C17_DedupedSide ==
    [][AtSideStep =>
        /\ NoCloseNeighbours(sides'[k_pos + 1])
        /\ TwoDistinct(sides[k_pos + 1]) =>
              AllRepresented(sides[k_pos + 1], sides'[k_pos + 1])
        /\ Len(sides'[k_pos + 1]) < 3 => total_volume' = total_volume]_vars

-----------------------------------------------------------------------------
(* Claims about argument parsing in the two drivers.                         *)

\* the index locked_axes - 1 (0-based) at which the parsing loop writes the
\* forced-axis argument number k (1-based)
WrittenIndex(k) == (k - 1) \div 3

\* C18: in both optimizers, once the arguments are parsed, the number of
\* locked axes is at most axis_count, and every index of best_axes written
\* while parsing was within 0..axis_count-1.
C18_ParseInBounds ==
    pc # "start" =>
        /\ locked_axes <= axis_count
        /\ \A k \in 1..Len(forced) : WrittenIndex(k) \in 0..(axis_count - 1)

-----------------------------------------------------------------------------
(* evaluate_axes_cost of image_optimizer.cc: the body of one iteration of   *)
(* the sampling loop, from the choice of the pixel to the call of the       *)
(* kernel.  Floats are computed as IEEE-754 binary32 does: a positive float  *)
(* is <<M, s>> = M * 2^s with M of at most 24 bits, every operation rounds   *)
(* to nearest, ties to even.  A build may contract u*(w-2)+1 into one fused  *)
(* multiply-add, which rounds once; s_fused chooses between the two.         *)

\* the largest image side of the modelled calls
MaxImage == 5

\* sides w and h of the modelled images; sides below 3 have no interior
ImageSides == 2..MaxImage

\* values of the seed argument: 0, and seeds from which a loop index of
\* 0..MaxAttempts-1 leads to a cur_seed whose first draw (29400446,
\* 60307884) or second draw (277529) is one of the largest uint values
SeedArgs == {<<0, 0>>, <<448, 40318>>, <<920, 14763>>, <<4, 15383>>}

RECURSIVE BitLen(_)
BitLen(n) == IF n = 0 THEN 0 ELSE 1 + BitLen(n \div 2)

Max2(a, b) == IF a < b THEN b ELSE a

\* the integer n rounded to 24 significant bits, as <<M, s>>
RoundTo24(n) ==
    LET s == BitLen(n) - 24
    IN  IF s <= 0 THEN <<n, 0>>
        ELSE LET q == n \div Pow2(s)
                 r == n % Pow2(s)
                 half == Pow2(s - 1)
             IN  IF r > half \/ (r = half /\ q % 2 = 1)
                 THEN <<q + 1, s>> ELSE <<q, s>>

\* the conversion uint -> float of the value p = <<high, low>>
FloatOfUint(p) ==
    IF p[1] < 32768 THEN RoundTo24(p[1] * 65536 + p[2])
    ELSE LET q == p[1] * 256 + p[2] \div 256
             r == p[2] % 256
         IN  IF r > 128 \/ (r = 128 /\ q % 2 = 1)
             THEN <<q + 1, 8>> ELSE <<q, 8>>

\* pcg(seed) * 2.3283064365386963e-10f: the factor is 2^-32, exactly
UniformFloat(p) == LET f == FloatOfUint(p) IN <<f[1], f[2] - 32>>

\* the float product u * m for an int m >= 0; the fused form keeps it exact
FloatTimes(u, m, fused) ==
    IF fused THEN <<u[1] * m, u[2]>>
    ELSE LET r == RoundTo24(u[1] * m) IN <<r[1], r[2] + u[2]>>

\* int(v + 1) for a float 0 <= v: the sum is formed in units of 2^-26 with
\* a sticky last bit, rounded to a float, and truncated
TruncatedSuccessor(v) ==
    LET shift == 0 - (v[2] + 25)
        v25 == IF shift <= 0 THEN v[1] * Pow2(0 - shift)
               ELSE IF shift >= 31 THEN 0
               ELSE v[1] \div Pow2(shift)
        inexact == IF shift <= 0 THEN FALSE
                   ELSE IF shift >= 31 THEN v[1] # 0
                   ELSE v[1] % Pow2(shift) # 0
        sum == RoundTo24(2 * (Pow2(25) + v25) + (IF inexact THEN 1 ELSE 0))
    IN  (sum[1] * Pow2(sum[2])) \div Pow2(26)

\* glm::clamp(x, minVal, maxVal) = min(max(x, minVal), maxVal)
clamp(x, minVal, maxVal) == Min2(Max2(x, minVal), maxVal)

\* int(generate_uniform_random(cur_seed) * (w-2)+1) for the draw p
UnclampedCoordinate(p, side, fused) ==
    TruncatedSuccessor(FloatTimes(UniformFloat(p), side - 2, fused))

\* clamp(int(generate_uniform_random(cur_seed) * (w-2)+1), 1, w-2)
PixelCoordinate(p, side, fused) ==
    clamp(TruncatedSuccessor(FloatTimes(UniformFloat(p), side - 2, fused)),
          1, side - 2)

\* the loop variables of iteration n of  for(i) for(j)
LoopI(n) == (n \div 3) - 1

LoopJ(n) == (n % 3) - 1

InitSample ==
    /\ DriverInCall
    /\ OmpIdle
    /\ KdopIdle
    /\ s_pc = "sample"
    /\ s_w \in ImageSides
    /\ s_h \in ImageSides
    /\ s_seed \in SeedArgs
    /\ s_a \in 0..(MaxAttempts - 1)
    /\ s_fused \in BOOLEAN
    /\ cur_seed = <<0, 0>>
    /\ s_x = 0
    /\ s_y = 0
    /\ s_n = 0
    /\ s_reads = <<>>
    /\ neighborhood = [slot \in 0..8 |-> 0]

\* uint cur_seed = seed+a; int x = clamp(...); int y = clamp(...);
\* each draw advances cur_seed
SamplePixel ==
    /\ s_pc = "sample"
    /\ \E p1 \in {pcg(Add32(s_seed, <<0, s_a>>))} :
       \E p2 \in {pcg(p1)} :
         /\ s_x' = PixelCoordinate(p1, s_w, s_fused)
         /\ s_y' = PixelCoordinate(p2, s_h, s_fused)
         /\ cur_seed' = p2
    /\ s_pc' = "read"
    /\ UNCHANGED <<s_w, s_h, s_seed, s_a, s_fused, s_n, s_reads, neighborhood>>
    /\ UNCHANGED <<drvVars, ompVars, kdopVars>>

\* one iteration of the (i, j) loops: the three bytes of pixel (x+i, y+j)
\* are read and slot i+1+3*(j+1) of neighborhood is written
ReadNeighbour ==
    /\ s_pc = "read"
    /\ s_n < 9
    /\ LET xi == s_x + LoopI(s_n)
           yi == s_y + LoopJ(s_n)
       IN  /\ s_reads' = s_reads \o <<xi * 3 + yi * s_w * 3,
                                      xi * 3 + 1 + yi * s_w * 3,
                                      xi * 3 + 2 + yi * s_w * 3>>
           /\ neighborhood' =
                [neighborhood EXCEPT ![LoopI(s_n) + 1 + 3 * (LoopJ(s_n) + 1)]
                                        = @ + 1]
    /\ s_n' = s_n + 1
    /\ UNCHANGED <<s_pc, s_w, s_h, s_seed, s_a, s_fused, cur_seed, s_x, s_y>>
    /\ UNCHANGED <<drvVars, ompVars, kdopVars>>

\* the loops are over: find_kdop_volume(neighborhood, axes, axis_count)
CallFindVolume ==
    /\ s_pc = "read"
    /\ s_n = 9
    /\ s_pc' = "volume"
    /\ UNCHANGED <<s_w, s_h, s_seed, s_a, s_fused, cur_seed, s_x, s_y, s_n,
                   s_reads, neighborhood>>
    /\ UNCHANGED <<drvVars, ompVars, kdopVars>>

NextSample == SamplePixel \/ ReadNeighbour \/ CallFindVolume

SpecSample == InitSample /\ [][NextSample]_vars

\* C19: for every image with width >= 3 and height >= 3, every seed and
\* every sample index, the sampled pixel is interior (1 <= x <= w-2 and
\* 1 <= y <= h-2), every byte read of its 3x3 neighborhood uses an index in
\* 0..3*w*h-1 (27 reads in all), and each of the 9 neighborhood slots is
\* written exactly once.
C19_SampledPixelInterior ==
    (s_w >= 3 /\ s_h >= 3 /\ s_pc \in {"read", "volume"}) =>
        /\ 1 <= s_x /\ s_x <= s_w - 2
        /\ 1 <= s_y /\ s_y <= s_h - 2
        /\ \A k \in 1..Len(s_reads) :
             s_reads[k] \in 0..(3 * s_w * s_h - 1)
        /\ \A slot \in 0..8 : neighborhood[slot] <= 1
        /\ s_pc = "volume" =>
             /\ Len(s_reads) = 27
             /\ \A slot \in 0..8 : neighborhood[slot] = 1

\* a sample whose x draw rounds to 1.0, so that the clamp acts, has read
\* its whole neighborhood in the smallest image
C19_Witness ==
    /\ s_pc = "volume"
    /\ s_w = 3
    /\ s_h = 4
    /\ UnclampedCoordinate(pcg(Add32(s_seed, <<0, s_a>>)), s_w, s_fused) = 2
    /\ s_x = 1
    /\ s_y = 2
    /\ Len(s_reads) = 27

====
